---- MODULE Spec2Model ----
(***************************************************************************)
(* The reward-pool program (programs/reward-pool/src/lib.rs) as a state    *)
(* machine.  One action per instruction of RewardPoolInstruction; every    *)
(* action is the whole handler.  A handler that returns Err leaves every   *)
(* account as it was: the runtime discards the writes of a failed          *)
(* instruction, so the post-state of a failed request is the pre-state.    *)
(*                                                                         *)
(* u64 values are kept in 0 .. MaxU64 with MaxU64 = 2^WordBits - 1.  The   *)
(* model checker's integers are 32 bits wide, so the 64-bit word is        *)
(* represented by a WordBits-bit word; every sum and product of the        *)
(* handlers is reduced or trapped at that width exactly as the u64         *)
(* operators of the source are at 64.                                      *)
(***************************************************************************)
EXTENDS Integers, FiniteSets, TLC

\* ------------------------------------------------------------------ bounds
WordBits == 17
MaxMoves == 3

Modulus == 2 ^ WordBits
MaxU64 == Modulus - 1
MaxU8 == 255

\* ------------------------------------------------------- program constants
MINIMUM_WITHDRAWAL_AMOUNT == 1000

\* std::mem::size_of::<RewardPool>(): 115 bytes of fields rounded up to the
\* 8-byte alignment of u64; the space of a pool account the program creates.
PoolSpace == 120
\* Length of the Borsh encoding of RewardPool: 3*32 + 1 + 8 + 8 + 1 + 1.
PoolSerializedLen == 115

\* ------------------------------------------------------------- input sets
Principals == {"alice", "bob"}
ZeroKey == "zero"
RewardMint == "mint"
TreasuryKey == "treasury"
\* Owner of the treasury token account: the only authority whose transfer
\* out of the treasury the token program accepts.
TreasuryOwner == "alice"
TreasuryFunding == MaxU64

Farmers == {"bob"}
\* A request's first account: its key and whether it signed.  An account that
\* did not sign is rejected by every handler before its key is read.
Requesters == {<<TRUE, "alice">>, <<TRUE, "bob">>, <<FALSE, "alice">>}
FeeInputs == {10, 100, 150}
BigAmount == MaxU64
RecordAmounts == {0, 1000, 2505, BigAmount}
WithdrawAmounts == {500, 900, 1000}
Nonces == {1, 2}

NoAccount == -1

VARIABLES
    overflow_checks,  \* build profile: TRUE = u64 overflow panics, FALSE = wraps
    pool_len,         \* pool_info.data.len(): 0 = data_is_empty()
    pool,             \* the RewardPool the first bytes of pool_info.data decode to
    treasury,         \* token balance of the platform treasury account
    reward,           \* farmer -> balance of the farmer's reward account, NoAccount if empty
    dest,             \* farmer -> balance of the farmer's destination account
    moves,            \* number of successful RecordReward and WithdrawReward requests
    withdrawal_records, \* the WithdrawalRecord values the program has persisted
    withdrawn,        \* history: the <<farmer, nonce>> pairs of successful withdrawals
    gross_recorded,   \* history: gross amounts of the successful accruals since initialization
    net_transferred,  \* history: amount moved out of the treasury since initialization
    overflowed,       \* history: an accrual since initialization was computed with a wrapped value
    last              \* history: the last request and its result

vars == <<overflow_checks, pool_len, pool, treasury, reward, dest, moves,
          withdrawal_records, withdrawn, gross_recorded, net_transferred,
          overflowed, last>>

\* The history of the accruals, kept by InitializePool and RecordReward only.
accrual_history == <<gross_recorded, net_transferred, overflowed>>

\* A zero-filled account decodes to this record.
ZeroPool ==
    [platform_authority |-> ZeroKey,
     reward_mint |-> ZeroKey,
     platform_treasury |-> ZeroKey,
     platform_fee_percentage |-> 0,
     total_rewards_distributed |-> 0,
     total_platform_fees_collected |-> 0,
     is_paused |-> FALSE,
     bump_seed |-> 0]

NoRequest ==
    [op |-> "none", is_signer |-> FALSE, key |-> ZeroKey, amount |-> 0,
     fee |-> 0, farmer |-> ZeroKey, nonce |-> 0, result |-> "none",
     transfer |-> FALSE]

\* A request, its result, and whether the handler invoked the token transfer.
Request(op, is_signer, key, amount, fee, farmer, nonce, out) ==
    [op |-> op, is_signer |-> is_signer, key |-> key, amount |-> amount,
     fee |-> fee, farmer |-> farmer, nonce |-> nonce, result |-> out.result,
     transfer |-> out.transfer]

\* The accounts a handler can write, as one value.
Accounts ==
    [pool_len |-> pool_len, pool |-> pool, treasury |-> treasury,
     reward |-> reward, dest |-> dest]

\* return Err(e) before any account is written and before any transfer.
Err(e) == [result |-> e, acc |-> Accounts, transfer |-> FALSE]
\* Ok(()) of a handler that invokes no token transfer.
Ok(a) == [result |-> "Ok", acc |-> a, transfer |-> FALSE]
\* Ok(()) after the token transfer was invoked and succeeded.
Transferred(a) == [result |-> "Ok", acc |-> a, transfer |-> TRUE]

\* A failed invoke keeping what the handler had written before it.
Abort_KeepWrites(e, written, issued) ==
    [result |-> e, acc |-> written, transfer |-> issued]

\* invoke(..)? failing after the handler has written `written`: the
\* instruction fails and its writes are discarded.  `issued` tells whether
\* the failed call was the token transfer.
Abort(e, written, issued) ==
    [result |-> e, acc |-> Accounts, transfer |-> issued]

\* RewardPool::try_from_slice(&pool_info.data.borrow()): fails on an empty
\* buffer and on a buffer with bytes left over after the record.
PoolLoads == pool_len = PoolSerializedLen

\* pool_data.serialize(&mut &mut pool_info.data.borrow_mut()[..])
SerializeFits(len) == len >= PoolSerializedLen

\* ---------------------------------------------------------- InitializePool
\* The range check compared against the width of u8 instead of 100.
InitFeeInvalid_U8Range(platform_fee_percentage) == platform_fee_percentage > MaxU8

\* if platform_fee_percentage > 100 { return Err(InvalidPlatformFee) }
InitFeeInvalid(platform_fee_percentage) == platform_fee_percentage > 100

process_initialize_pool(is_signer, key, platform_fee_percentage, ext_ok) ==
    IF ~is_signer THEN Err("InvalidAuthority")
    ELSE IF InitFeeInvalid(platform_fee_percentage) THEN Err("InvalidPlatformFee")
    ELSE IF pool_len = 0 /\ ~ext_ok THEN Err("CpiError")
    ELSE
      LET len == IF pool_len = 0 THEN PoolSpace ELSE pool_len
          pool_data ==
            [platform_authority |-> key,
             reward_mint |-> RewardMint,
             platform_treasury |-> TreasuryKey,
             platform_fee_percentage |-> platform_fee_percentage,
             total_rewards_distributed |-> 0,
             total_platform_fees_collected |-> 0,
             is_paused |-> FALSE,
             bump_seed |-> 0]
      IN IF ~SerializeFits(len) THEN Err("BorshIoError")
         ELSE Ok([Accounts EXCEPT !.pool_len = len, !.pool = pool_data])

Commit(out) ==
    /\ pool_len' = out.acc.pool_len
    /\ pool' = out.acc.pool
    /\ treasury' = out.acc.treasury
    /\ reward' = out.acc.reward
    /\ dest' = out.acc.dest

InitializePool(is_signer, key, fee, ext_ok) ==
    LET out == process_initialize_pool(is_signer, key, fee, ext_ok) IN
    /\ Commit(out)
    /\ last' = Request("InitializePool", is_signer, key, 0, fee, ZeroKey, 0,
                       out)
    /\ gross_recorded' = IF out.result = "Ok" THEN 0 ELSE gross_recorded
    /\ net_transferred' = IF out.result = "Ok" THEN 0 ELSE net_transferred
    /\ overflowed' = (out.result # "Ok" /\ overflowed)
    /\ UNCHANGED <<overflow_checks, moves, withdrawal_records, withdrawn>>

\* ------------------------------------------------------------ RecordReward
Overflows(x) == x > MaxU64 \/ x < 0
Wrap(x) == x % Modulus

\* The pause gate left out of the accrual path.
RecordPaused_Ungated(pool_data) == FALSE

\* if pool_data.is_paused { return Err(PoolPaused) } of process_record_reward
RecordPaused(pool_data) == pool_data.is_paused

\* The comparison with the stored authority made before the pause test.
RecordRefusal_AuthorityFirst(pool_data, key) ==
    IF pool_data.platform_authority # key THEN "InvalidAuthority"
    ELSE IF RecordPaused(pool_data) THEN "PoolPaused"
    ELSE "Ok"

\* The two tests process_record_reward makes on the loaded pool, in the order
\* of the code: is_paused first, then platform_authority != *authority_info.key.
RecordRefusal(pool_data, key) ==
    IF RecordPaused(pool_data) THEN "PoolPaused"
    ELSE IF pool_data.platform_authority # key THEN "InvalidAuthority"
    ELSE "Ok"

\* (amount * pool_data.platform_fee_percentage as u64) / 100
PlatformFee(amount, percentage) == Wrap(amount * percentage) \div 100

\* The fee computed but not deducted from what the farmer receives.
FarmerAmount_Gross(amount, platform_fee) == amount

\* amount - platform_fee
FarmerAmount(amount, platform_fee) == Wrap(amount - platform_fee)

\* The counter assigned instead of added to.
Accumulate_Overwrite(total, delta) == delta

\* pool_data.total_rewards_distributed += farmer_amount and
\* pool_data.total_platform_fees_collected += platform_fee, before reduction
\* to the word.
Accumulate(total, delta) == total + delta

\* token_instruction::transfer invoked on the token program: the source must
\* hold the amount and be owned by the signing authority.
TokenTransferError(source_balance, source_owner, authority, amount) ==
    IF source_balance < amount THEN "TokenInsufficientFunds"
    ELSE IF source_owner # authority THEN "TokenOwnerMismatch"
    ELSE "Ok"

process_record_reward(is_signer, key, amount, farmer, ext_ok) ==
    IF ~is_signer THEN Err("InvalidAuthority")
    ELSE IF ~PoolLoads THEN Err("BorshIoError")
    ELSE IF RecordRefusal(pool, key) # "Ok" THEN Err(RecordRefusal(pool, key))
    ELSE
      LET product == amount * pool.platform_fee_percentage
          platform_fee == PlatformFee(amount, pool.platform_fee_percentage)
          farmer_amount == FarmerAmount(amount, platform_fee)
          distributed == Accumulate(pool.total_rewards_distributed, farmer_amount)
          collected == Accumulate(pool.total_platform_fees_collected, platform_fee)
          pool_data ==
            [pool EXCEPT !.total_rewards_distributed = Wrap(distributed),
                         !.total_platform_fees_collected = Wrap(collected)]
          transfer == TokenTransferError(treasury, TreasuryOwner, key, farmer_amount)
          balance == IF reward[farmer] = NoAccount THEN 0 ELSE reward[farmer]
          saved == [Accounts EXCEPT !.pool = pool_data]
          provisioned == [saved EXCEPT !.reward[farmer] = balance]
      IN IF overflow_checks /\ (Overflows(product) \/ Overflows(amount - platform_fee)
                                \/ Overflows(distributed) \/ Overflows(collected))
           THEN Err("Panic")
         ELSE IF ~SerializeFits(pool_len) THEN Err("BorshIoError")
         ELSE IF ~ext_ok
           THEN Abort("CpiError", saved, reward[farmer] # NoAccount)
         ELSE IF transfer # "Ok" THEN Abort(transfer, provisioned, TRUE)
         ELSE Transferred([provisioned EXCEPT
                             !.treasury = treasury - farmer_amount,
                             !.reward[farmer] = balance + farmer_amount])

\* Some product, difference or sum of lines 289-294 leaves the word.
RecordOverflows(amount) ==
    LET platform_fee == PlatformFee(amount, pool.platform_fee_percentage)
        farmer_amount == FarmerAmount(amount, platform_fee)
    IN \/ Overflows(amount * pool.platform_fee_percentage)
       \/ Overflows(amount - platform_fee)
       \/ Overflows(pool.total_rewards_distributed + farmer_amount)
       \/ Overflows(pool.total_platform_fees_collected + platform_fee)

RecordReward(is_signer, key, amount, farmer, ext_ok) ==
    LET out == process_record_reward(is_signer, key, amount, farmer, ext_ok) IN
    /\ moves < MaxMoves
    /\ Commit(out)
    /\ moves' = IF out.result = "Ok" THEN moves + 1 ELSE moves
    /\ gross_recorded' = IF out.result = "Ok" THEN gross_recorded + amount
                         ELSE gross_recorded
    /\ net_transferred' = net_transferred + (treasury - out.acc.treasury)
    /\ overflowed' = (overflowed \/ (out.result = "Ok" /\ RecordOverflows(amount)))
    /\ last' = Request("RecordReward", is_signer, key, amount, 0, farmer, 0,
                       out)
    /\ UNCHANGED <<overflow_checks, withdrawal_records, withdrawn>>

\* ---------------------------------------------------------- WithdrawReward
\* if pool_data.is_paused { return Err(PoolPaused) } of process_withdraw_reward
WithdrawPaused(pool_data) == pool_data.is_paused

\* The minimum compared against zero instead of MINIMUM_WITHDRAWAL_AMOUNT.
BelowMinimum_Zero(amount) == amount < 0

\* amount < MINIMUM_WITHDRAWAL_AMOUNT
BelowMinimum(amount) == amount < MINIMUM_WITHDRAWAL_AMOUNT

\* token_account.amount < amount
ExceedsBalance(balance, amount) == balance < amount

\* A validation placed after the transfer instead of before it.
WithdrawRejected_AfterTransfer(e) ==
    [result |-> e, acc |-> Accounts, transfer |-> TRUE]

\* return Err(e) of the validations of process_withdraw_reward, all of them
\* above the transfer.
WithdrawRejected(e) == Err(e)

\* The withdrawal also taken off the pool's total_rewards_distributed.
WithdrawEffect_DebitPool(key, amount) ==
    [Accounts EXCEPT !.reward[key] = reward[key] - amount,
                     !.dest[key] = dest[key] + amount,
                     !.pool.total_rewards_distributed =
                         pool.total_rewards_distributed - amount]

\* The accounts after the transfer of `amount` from the farmer's reward
\* account to the farmer's destination account; nothing else is written.
WithdrawEffect(key, amount) ==
    [Accounts EXCEPT !.reward[key] = reward[key] - amount,
                     !.dest[key] = dest[key] + amount]

process_withdraw_reward(is_signer, key, amount, nonce) ==
    IF ~is_signer THEN WithdrawRejected("MissingRequiredSignature")
    ELSE IF ~PoolLoads THEN Err("BorshIoError")
    ELSE IF WithdrawPaused(pool) THEN WithdrawRejected("PoolPaused")
    ELSE IF BelowMinimum(amount) THEN WithdrawRejected("InsufficientAmount")
    ELSE IF reward[key] = NoAccount THEN Err("InvalidAccountData")
    ELSE IF ExceedsBalance(reward[key], amount)
      THEN WithdrawRejected("InsufficientAmount")
    ELSE
      LET transfer == TokenTransferError(reward[key], key, key, amount)
      IN IF transfer # "Ok" THEN Abort(transfer, Accounts, TRUE)
         ELSE Transferred(WithdrawEffect(key, amount))

WithdrawReward(is_signer, key, amount, nonce) ==
    LET out == process_withdraw_reward(is_signer, key, amount, nonce) IN
    /\ Commit(out)
    /\ moves < MaxMoves
    /\ moves' = IF out.result = "Ok" THEN moves + 1 ELSE moves
    /\ withdrawn' = IF out.result = "Ok" THEN withdrawn \cup {<<key, nonce>>}
                    ELSE withdrawn
    /\ last' = Request("WithdrawReward", is_signer, key, amount, 0, key, nonce,
                       out)
    /\ UNCHANGED <<overflow_checks, withdrawal_records, accrual_history>>

\* ------------------------------------------------------- UpdatePlatformFee
\* The range check left out of the fee update.
UpdateFeeInvalid_Unchecked(new_fee_percentage) == FALSE

\* if new_fee_percentage > 100 { return Err(InvalidPlatformFee) }
UpdateFeeInvalid(new_fee_percentage) == new_fee_percentage > 100

\* The fee update recomputing the split of the past accruals at the new rate.
process_update_platform_fee_Recompute(is_signer, key, new_fee_percentage) ==
    LET gross == pool.total_rewards_distributed
                 + pool.total_platform_fees_collected
        fees == PlatformFee(gross, new_fee_percentage)
    IN
    IF ~is_signer THEN Err("InvalidAuthority")
    ELSE IF UpdateFeeInvalid(new_fee_percentage) THEN Err("InvalidPlatformFee")
    ELSE IF ~PoolLoads THEN Err("BorshIoError")
    ELSE IF pool.platform_authority # key THEN Err("InvalidAuthority")
    ELSE Ok([Accounts EXCEPT
               !.pool.platform_fee_percentage = new_fee_percentage,
               !.pool.total_platform_fees_collected = fees,
               !.pool.total_rewards_distributed = gross - fees])

process_update_platform_fee(is_signer, key, new_fee_percentage) ==
    IF ~is_signer THEN Err("InvalidAuthority")
    ELSE IF UpdateFeeInvalid(new_fee_percentage) THEN Err("InvalidPlatformFee")
    ELSE IF ~PoolLoads THEN Err("BorshIoError")
    ELSE IF pool.platform_authority # key THEN Err("InvalidAuthority")
    ELSE Ok([Accounts EXCEPT !.pool.platform_fee_percentage = new_fee_percentage])

UpdatePlatformFee(is_signer, key, fee) ==
    LET out == process_update_platform_fee(is_signer, key, fee) IN
    /\ Commit(out)
    /\ last' = Request("UpdatePlatformFee", is_signer, key, 0, fee, ZeroKey, 0,
                       out)
    /\ UNCHANGED <<overflow_checks, moves, withdrawal_records, withdrawn,
                   accrual_history>>

\* ---------------------------------------------------- PausePool, ResumePool
\* The pause handler without the comparison with the stored authority.
process_pause_pool_AnySigner(is_signer, key) ==
    IF ~is_signer THEN Err("InvalidAuthority")
    ELSE IF ~PoolLoads THEN Err("BorshIoError")
    ELSE Ok([Accounts EXCEPT !.pool.is_paused = TRUE])

process_pause_pool(is_signer, key) ==
    IF ~is_signer THEN Err("InvalidAuthority")
    ELSE IF ~PoolLoads THEN Err("BorshIoError")
    ELSE IF pool.platform_authority # key THEN Err("InvalidAuthority")
    ELSE Ok([Accounts EXCEPT !.pool.is_paused = TRUE])

PausePool(is_signer, key) ==
    LET out == process_pause_pool(is_signer, key) IN
    /\ Commit(out)
    /\ last' = Request("PausePool", is_signer, key, 0, 0, ZeroKey, 0,
                       out)
    /\ UNCHANGED <<overflow_checks, moves, withdrawal_records, withdrawn,
                   accrual_history>>

process_resume_pool(is_signer, key) ==
    IF ~is_signer THEN Err("InvalidAuthority")
    ELSE IF ~PoolLoads THEN Err("BorshIoError")
    ELSE IF pool.platform_authority # key THEN Err("InvalidAuthority")
    ELSE Ok([Accounts EXCEPT !.pool.is_paused = FALSE])

ResumePool(is_signer, key) ==
    LET out == process_resume_pool(is_signer, key) IN
    /\ Commit(out)
    /\ last' = Request("ResumePool", is_signer, key, 0, 0, ZeroKey, 0,
                       out)
    /\ UNCHANGED <<overflow_checks, moves, withdrawal_records, withdrawn,
                   accrual_history>>

\* ------------------------------------------------------------------ claims
\* The pool slot holds a record written by a successful InitializePool.
PoolInitialized == pool_len > 0 /\ pool.platform_authority # ZeroKey

\* The pool is initialized, its record loads and it is not paused.
PoolActive == PoolInitialized /\ PoolLoads /\ ~pool.is_paused

\* The farmer's reward holding, 0 when the reward account does not exist.
Holding(f) == IF reward[f] = NoAccount THEN 0 ELSE reward[f]

BalancesUnchanged == UNCHANGED <<treasury, reward, dest>>
AccountsUnchanged == UNCHANGED <<pool_len, pool, treasury, reward, dest>>

\* C1: an InitializePool request by a verified requester with a fee in 0..100
\* on a slot that already holds an initialized Pool record fails with
\* PoolAlreadyInitialized and leaves the Pool record unchanged.
C1_ReinitializationRejected ==
    [][(/\ PoolInitialized
        /\ last'.op = "InitializePool"
        /\ last'.is_signer
        /\ last'.fee \in 0..100)
       => (last'.result = "PoolAlreadyInitialized" /\ pool' = pool)]_vars

\* C2: once farmer F has withdrawn with nonce n, a later WithdrawReward by F
\* with the same nonce fails with InvalidNonce and changes no balance and no
\* record.  Stated for the requests every other validation lets through
\* (verified farmer, active pool, amount at least the minimum and within the
\* holding), where the nonce is what decides.
C2_NonceReuseRejected ==
    [][(/\ last'.op = "WithdrawReward"
        /\ last'.is_signer
        /\ <<last'.key, last'.nonce>> \in withdrawn
        /\ PoolActive
        /\ last'.amount >= MINIMUM_WITHDRAWAL_AMOUNT
        /\ last'.amount <= Holding(last'.key))
       => (last'.result = "InvalidNonce" /\ AccountsUnchanged)]_vars

\* C3 as stated: while is_paused holds, every RecordReward and every
\* WithdrawReward request fails with PoolPaused and changes nothing.
C3_PausedAlwaysPoolPaused ==
    [][(/\ pool.is_paused
        /\ last'.op \in {"RecordReward", "WithdrawReward"})
       => (last'.result = "PoolPaused" /\ AccountsUnchanged)]_vars

\* C3 amended: while is_paused holds, every RecordReward and every
\* WithdrawReward request fails and changes nothing; the failure is
\* PoolPaused when the requester is a verified signer, and InvalidAuthority
\* (RecordReward) or MissingRequiredSignature (WithdrawReward) when not.
C3_PausedRejectsFundOperations ==
    [][(/\ pool.is_paused
        /\ last'.op \in {"RecordReward", "WithdrawReward"})
       => (/\ AccountsUnchanged
           /\ last'.is_signer => last'.result = "PoolPaused"
           /\ (~last'.is_signer /\ last'.op = "RecordReward")
                => last'.result = "InvalidAuthority"
           /\ (~last'.is_signer /\ last'.op = "WithdrawReward")
                => last'.result = "MissingRequiredSignature")]_vars

\* A paused pool has just turned away an accrual by its own authority.
C3_Witness ==
    /\ pool.is_paused
    /\ last.op = "RecordReward"
    /\ last.is_signer
    /\ last.key = pool.platform_authority
    /\ last.amount > 0
    /\ last.result = "PoolPaused"

\* C4: total_distributed and total_fees_collected never decrease from one
\* state to the next, whatever the operation.
C4_CountersNeverDecrease ==
    [][/\ pool'.total_rewards_distributed >= pool.total_rewards_distributed
       /\ pool'.total_platform_fees_collected >= pool.total_platform_fees_collected]_vars

\* C5: whenever the Pool record exists its fee_percentage is in 0..100.
C5_FeeInRange ==
    pool_len > 0 => pool.platform_fee_percentage \in 0..100

\* The stored authority asked for a fee above 100, by initialization or by
\* update, and the record that exists is still in range.
C5_Witness ==
    /\ PoolInitialized
    /\ last.op \in {"InitializePool", "UpdatePlatformFee"}
    /\ last.is_signer
    /\ last.key = pool.platform_authority
    /\ last.fee > 100

\* The exact (unbounded) fee and net of a gross amount at a percentage.
ExactFee(amount, percentage) == (amount * percentage) \div 100
ExactNet(amount, percentage) == amount - ExactFee(amount, percentage)

\* C6: every accepted RecordReward splits the gross amount into
\* fee = floor(amount * fee_percentage / 100) and net = amount - fee, adds
\* net to total_distributed and fee to total_fees_collected, and moves net
\* from the treasury to the farmer's reward holding.
C6_ExactFeeSplit ==
    [][(last'.op = "RecordReward" /\ last'.result = "Ok")
       => LET fee == ExactFee(last'.amount, pool.platform_fee_percentage)
              net == ExactNet(last'.amount, pool.platform_fee_percentage)
          IN /\ fee + net = last'.amount
             /\ pool'.total_rewards_distributed
                  = pool.total_rewards_distributed + net
             /\ pool'.total_platform_fees_collected
                  = pool.total_platform_fees_collected + fee
             /\ treasury' = treasury - net
             /\ reward'[last'.farmer] = Holding(last'.farmer) + net]_vars

\* C7: a RecordReward whose product amount * fee_percentage or whose counter
\* sums leave the unsigned word fails as a whole, changing no counter and no
\* balance.
C7_OverflowFailsOperation ==
    [][(/\ last'.op = "RecordReward"
        /\ last'.is_signer
        /\ PoolActive
        /\ last'.key = pool.platform_authority
        /\ LET fee == ExactFee(last'.amount, pool.platform_fee_percentage)
               net == ExactNet(last'.amount, pool.platform_fee_percentage)
           IN \/ last'.amount * pool.platform_fee_percentage > MaxU64
              \/ pool.total_rewards_distributed + net > MaxU64
              \/ pool.total_platform_fees_collected + fee > MaxU64)
       => (last'.result # "Ok" /\ AccountsUnchanged)]_vars

\* C8 as stated: an UpdatePlatformFee above 100 on an initialized pool fails
\* with InvalidPlatformFee and leaves the Pool record as it was.
C8_FeeAbove100InvalidPlatformFee ==
    [][(PoolInitialized /\ last'.op = "UpdatePlatformFee" /\ last'.fee > 100)
       => (last'.result = "InvalidPlatformFee" /\ pool' = pool)]_vars

\* C8 amended: an UpdatePlatformFee above 100 on an initialized pool always
\* fails and leaves the Pool record as it was; the failure is
\* InvalidPlatformFee when the requester is a verified signer and
\* InvalidAuthority when it is not.
C8_FeeAbove100Rejected ==
    [][(PoolInitialized /\ last'.op = "UpdatePlatformFee" /\ last'.fee > 100)
       => (/\ pool' = pool
           /\ last'.is_signer => last'.result = "InvalidPlatformFee"
           /\ ~last'.is_signer => last'.result = "InvalidAuthority")]_vars

\* The stored authority of an initialized pool asked for 150 and was refused.
C8_Witness ==
    /\ PoolInitialized /\ PoolLoads
    /\ last.op = "UpdatePlatformFee"
    /\ last.is_signer
    /\ last.key = pool.platform_authority
    /\ last.fee = 150
    /\ last.result = "InvalidPlatformFee"

\* C9 as stated: on an active pool a WithdrawReward by a verified farmer
\* fails with InsufficientAmount and changes nothing when the amount is below
\* the minimum or above the farmer's holding.
C9_InsufficientAmount ==
    [][(/\ last'.op = "WithdrawReward"
        /\ last'.is_signer
        /\ PoolActive
        /\ \/ last'.amount < MINIMUM_WITHDRAWAL_AMOUNT
           \/ last'.amount > Holding(last'.key))
       => (last'.result = "InsufficientAmount" /\ AccountsUnchanged)]_vars

\* C9 amended: on an active pool a WithdrawReward by a verified farmer
\* changes nothing and fails with InsufficientAmount when the amount is below
\* the minimum, whatever the holding, and when the farmer's reward account
\* exists and holds less than the amount; when the amount is at least the
\* minimum and the reward account does not exist, it fails with
\* InvalidAccountData instead.
C9_InsufficientAmountOfExistingHolding ==
    [][(/\ last'.op = "WithdrawReward"
        /\ last'.is_signer
        /\ PoolActive
        /\ \/ last'.amount < MINIMUM_WITHDRAWAL_AMOUNT
           \/ last'.amount > Holding(last'.key))
       => (/\ AccountsUnchanged
           /\ last'.result =
                IF \/ last'.amount < MINIMUM_WITHDRAWAL_AMOUNT
                   \/ reward[last'.key] # NoAccount
                THEN "InsufficientAmount" ELSE "InvalidAccountData")]_vars

\* A verified farmer asked an active pool for at least the minimum but more
\* than the existing, non-empty holding, and was refused.
C9_Witness ==
    /\ PoolActive
    /\ last.op = "WithdrawReward"
    /\ last.is_signer
    /\ last.amount >= MINIMUM_WITHDRAWAL_AMOUNT
    /\ reward[last.key] > 0
    /\ reward[last.key] < last.amount
    /\ last.result = "InsufficientAmount"

\* The state right after the scenario's accrual: the only fund movement so
\* far is an accrual of 1000 to farmer f on a pool whose fee is 10.
AfterScenarioAccrual(f) ==
    /\ last.op = "RecordReward"
    /\ last.result = "Ok"
    /\ last.amount = 1000
    /\ last.farmer = f
    /\ pool.platform_fee_percentage = 10
    /\ moves = 1

ScenarioAccrued(f) ==
    /\ pool.total_rewards_distributed = 900
    /\ pool.total_platform_fees_collected = 100
    /\ reward[f] = 900

ScenarioWithdrawal(f) ==
    /\ last'.op = "WithdrawReward"
    /\ last'.is_signer
    /\ last'.key = f
    /\ last'.amount = 900
    /\ last'.nonce = 1

\* C10 as stated: after the accrual of 1000 at fee 10 the counters are 900 and
\* 100 with 900 in F's holding, and the next request, a withdrawal by F of 900
\* with nonce 1, succeeds and moves 900 from the holding to F's destination.
C10_ScenarioWithdrawalSucceeds ==
    [][\A f \in Farmers :
         AfterScenarioAccrual(f)
         => /\ ScenarioAccrued(f)
            /\ ScenarioWithdrawal(f)
                 => /\ last'.result = "Ok"
                    /\ reward'[f] = reward[f] - 900
                    /\ dest'[f] = dest[f] + 900]_vars

\* C10 amended: after the accrual of 1000 at fee 10 the counters are 900 and
\* 100 with 900 in F's holding, and the next request, a withdrawal by F of 900
\* with nonce 1, fails with InsufficientAmount, 900 being below
\* MINIMUM_WITHDRAWAL_AMOUNT, and moves nothing.
C10_ScenarioWithdrawalBelowMinimum ==
    [][\A f \in Farmers :
         AfterScenarioAccrual(f)
         => /\ ScenarioAccrued(f)
            /\ ScenarioWithdrawal(f)
                 => /\ last'.result = "InsufficientAmount"
                    /\ AccountsUnchanged]_vars

\* The scenario has run to its end: the accrual left 900 / 100 / 900 and the
\* withdrawal of 900 with nonce 1 was the next request.
C10_Witness ==
    \E f \in Farmers :
      /\ ScenarioAccrued(f)
      /\ pool.platform_fee_percentage = 10
      /\ moves = 1
      /\ dest[f] = 0
      /\ last.op = "WithdrawReward"
      /\ last.is_signer
      /\ last.key = f
      /\ last.amount = 900
      /\ last.nonce = 1
      /\ last.result = "InsufficientAmount"

\* The administrative operations and the requests of the stored authority.
AdminOps == {"UpdatePlatformFee", "PausePool", "ResumePool"}
ByStoredAuthority == last'.is_signer /\ last'.key = pool.platform_authority

\* C11: on an initialized pool, Active or Paused, an UpdatePlatformFee with a
\* fee in 0..100, a PausePool and a ResumePool submitted by the verified stored
\* authority succeed; PausePool ends with is_paused = true and ResumePool with
\* is_paused = false, so that each state is reachable from the other.
C11_AuthorityAdministersPool ==
    [][(/\ PoolInitialized
        /\ last'.op \in AdminOps
        /\ ByStoredAuthority
        /\ last'.op = "UpdatePlatformFee" => last'.fee \in 0..100)
       => (/\ last'.result = "Ok"
           /\ last'.op = "PausePool" => pool'.is_paused
           /\ last'.op = "ResumePool" => ~pool'.is_paused)]_vars

\* C12: on an initialized pool, Active or Paused, a RecordReward,
\* UpdatePlatformFee, PausePool or ResumePool request whose requester is not a
\* verified signer or is not the stored authority never succeeds and changes
\* no field of the Pool record and no balance, whatever its arguments.
C12_UnauthorizedChangesNothing ==
    [][(/\ PoolInitialized
        /\ last'.op \in AdminOps \cup {"RecordReward"}
        /\ ~ByStoredAuthority)
       => (/\ last'.result # "Ok"
           /\ AccountsUnchanged)]_vars

\* A verified signer other than the stored authority has asked to pause an
\* active pool that holds accrued rewards, and was refused.
C12_Witness ==
    /\ PoolActive
    /\ pool.total_rewards_distributed > 0
    /\ last.op = "PausePool"
    /\ last.is_signer
    /\ last.key # pool.platform_authority
    /\ last.result = "InvalidAuthority"

\* C13: every successful WithdrawReward by farmer F with amount a and nonce n
\* persists a new WithdrawalRecord (F, a, n, timestamp), and there is at most
\* one WithdrawalRecord for any (farmer, nonce) pair.
C13_WithdrawalRecordPersisted ==
    [][(/\ last'.op = "WithdrawReward"
        /\ last'.result = "Ok")
       => (/\ \E r \in withdrawal_records' \ withdrawal_records :
                /\ r.farmer = last'.key
                /\ r.amount = last'.amount
                /\ r.nonce = last'.nonce
           /\ \A r1, r2 \in withdrawal_records' :
                (r1.farmer = r2.farmer /\ r1.nonce = r2.nonce) => r1 = r2)]_vars

\* The failures of the calls RecordReward makes to its collaborators: the
\* provisioning of the farmer's reward account and the token transfer.
TransferFailures == {"CpiError", "TokenInsufficientFunds", "TokenOwnerMismatch"}

ValidationErrors ==
    {"InvalidAuthority", "MissingRequiredSignature", "PoolPaused",
     "InsufficientAmount", "InvalidNonce"}

\* C15: in RecordReward and WithdrawReward no request that fails a validation
\* (signer, authority, pause, minimum amount, balance, nonce) has invoked the
\* transfer, and no failed request leaves funds moved.
C15_ValidationBeforeTransfer ==
    [][last'.op \in {"RecordReward", "WithdrawReward"}
       => (/\ last'.result \in ValidationErrors => ~last'.transfer
           /\ last'.result # "Ok" => BalancesUnchanged)]_vars

\* A farmer holding funds on an active pool asked to withdraw an amount the
\* holding covers, the request failed a validation and no transfer was invoked.
C15_Witness ==
    /\ PoolActive
    /\ last.op = "WithdrawReward"
    /\ last.is_signer
    /\ Holding(last.key) >= last.amount
    /\ last.result = "InsufficientAmount"
    /\ ~last.transfer

\* C16: a RecordReward request with amount = 0 never succeeds: it is rejected
\* and changes neither the Pool record nor any balance, even when submitted by
\* the verified stored authority on an active pool.
C16_ZeroAmountRejected ==
    [][(/\ last'.op = "RecordReward"
        /\ last'.amount = 0)
       => (/\ last'.result # "Ok"
           /\ AccountsUnchanged)]_vars

\* C17: on an initialized pool whose record loads, a RecordReward request
\* whose requester is a verified signer but not the stored authority fails
\* with InvalidAuthority, whether the pool is Active or Paused.
C17_NonAuthorityInvalidAuthority ==
    [][(/\ PoolInitialized
        /\ PoolLoads
        /\ last'.op = "RecordReward"
        /\ last'.is_signer
        /\ last'.key # pool.platform_authority)
       => last'.result = "InvalidAuthority"]_vars

\* C17 amended: on an initialized pool whose record loads, a RecordReward
\* request whose requester is a verified signer but not the stored authority
\* fails with InvalidAuthority when the pool is Active and with PoolPaused when
\* it is Paused, and changes nothing in either case.
C17_NonAuthorityRefused ==
    [][(/\ PoolInitialized
        /\ PoolLoads
        /\ last'.op = "RecordReward"
        /\ last'.is_signer
        /\ last'.key # pool.platform_authority)
       => (/\ last'.result = IF pool.is_paused THEN "PoolPaused"
                             ELSE "InvalidAuthority"
           /\ AccountsUnchanged)]_vars

\* A verified signer other than the stored authority has asked for an accrual
\* of a positive amount on a paused pool.
C17_Witness ==
    /\ PoolInitialized
    /\ pool.is_paused
    /\ last.op = "RecordReward"
    /\ last.is_signer
    /\ last.key # pool.platform_authority
    /\ last.amount > 0
    /\ last.result = "PoolPaused"

\* C18: a successful UpdatePlatformFee changes only platform_fee_percentage,
\* a successful PausePool or ResumePool changes only is_paused; the authority,
\* the reward mint, the treasury, both counters, the size of the record and
\* every balance are unchanged, so the fees of earlier accruals stand.
C18_AdminFrame ==
    [][last'.op \in AdminOps
       => (/\ pool_len' = pool_len
           /\ BalancesUnchanged
           /\ (last'.result = "Ok" /\ last'.op = "UpdatePlatformFee")
                => pool' = [pool EXCEPT !.platform_fee_percentage = last'.fee]
           /\ (last'.result = "Ok" /\ last'.op = "PausePool")
                => pool' = [pool EXCEPT !.is_paused = TRUE]
           /\ (last'.result = "Ok" /\ last'.op = "ResumePool")
                => pool' = [pool EXCEPT !.is_paused = FALSE])]_vars

\* The fee was raised from 10 to 100 after an accrual of 1000 at fee 10: the
\* counters still show the split 900 / 100 of that accrual.
C18_Witness ==
    /\ last.op = "UpdatePlatformFee"
    /\ last.result = "Ok"
    /\ pool.platform_fee_percentage = 100
    /\ pool.total_rewards_distributed = 900
    /\ pool.total_platform_fees_collected = 100
    /\ \E f \in Farmers : Holding(f) = 900

\* C19: a WithdrawReward request, successful or not, never modifies the Pool
\* record; a successful one takes exactly `amount` from the farmer's reward
\* holding, adds exactly `amount` to the farmer's destination, changes no
\* other balance and never drives the holding below zero; a failed one moves
\* nothing.
C19_WithdrawFrame ==
    [][last'.op = "WithdrawReward"
       => (/\ pool' = pool
           /\ pool_len' = pool_len
           /\ treasury' = treasury
           /\ last'.result # "Ok" => BalancesUnchanged
           /\ last'.result = "Ok"
                => /\ reward[last'.key] # NoAccount
                   /\ reward' = [reward EXCEPT
                                   ![last'.key] = reward[last'.key] - last'.amount]
                   /\ dest' = [dest EXCEPT
                                 ![last'.key] = dest[last'.key] + last'.amount]
                   /\ reward'[last'.key] >= 0)]_vars

\* A farmer has withdrawn from a pool with accrued rewards.
C19_Witness ==
    /\ last.op = "WithdrawReward"
    /\ last.result = "Ok"
    /\ dest[last.key] >= last.amount
    /\ last.amount >= MINIMUM_WITHDRAWAL_AMOUNT
    /\ pool.total_rewards_distributed > 0

\* C20: in every state reached since the pool was initialized without any
\* 64-bit overflow, total_rewards_distributed + total_platform_fees_collected
\* is the sum of the gross amounts of the successful RecordReward requests,
\* and total_rewards_distributed is the total amount transferred out of the
\* treasury to the farmers' reward holdings.
C20_CountersEqualAccruals ==
    (PoolInitialized /\ ~overflowed)
    => /\ pool.total_rewards_distributed + pool.total_platform_fees_collected
            = gross_recorded
       /\ pool.total_rewards_distributed = net_transferred

\* Two accruals, of 1000 and of 2505 at fee 10, and a withdrawal have been
\* made on a pool initialized once, with no overflow.
C20_Witness ==
    /\ PoolInitialized
    /\ ~overflowed
    /\ gross_recorded = 3505
    /\ pool.total_platform_fees_collected = 350
    /\ net_transferred = 3155
    /\ \E f \in Farmers : dest[f] > 0

\* ------------------------------------------------------------ specification
Init ==
    /\ overflow_checks \in BOOLEAN
    /\ pool_len \in {0, PoolSerializedLen}
    /\ pool = ZeroPool
    /\ treasury = TreasuryFunding
    /\ reward = [f \in Principals |-> NoAccount]
    /\ dest = [f \in Principals |-> 0]
    /\ moves = 0
    /\ withdrawal_records = {}
    /\ withdrawn = {}
    /\ gross_recorded = 0
    /\ net_transferred = 0
    /\ overflowed = FALSE
    /\ last = NoRequest

Next ==
    \/ \E r \in Requesters, fee \in FeeInputs, x \in BOOLEAN :
          InitializePool(r[1], r[2], fee, x)
    \/ \E r \in Requesters, a \in RecordAmounts, f \in Farmers, x \in BOOLEAN :
          RecordReward(r[1], r[2], a, f, x)
    \/ \E r \in Requesters, a \in WithdrawAmounts, n \in Nonces :
          WithdrawReward(r[1], r[2], a, n)
    \/ \E r \in Requesters, fee \in FeeInputs :
          UpdatePlatformFee(r[1], r[2], fee)
    \/ \E r \in Requesters : PausePool(r[1], r[2])
    \/ \E r \in Requesters : ResumePool(r[1], r[2])

Spec == Init /\ [][Next]_vars
====
